---- MODULE Spec2Model ----
(***************************************************************************)
(* Model of the Cakto webhook receiver, src/src/app/api/create-user/       *)
(* route.ts: the POST handler, planMapping, calculateExpirationDate and    *)
(* sendWelcomeEmail, together with the AccountDirectory (authService) and  *)
(* the Gmail transport it calls.                                           *)
(*                                                                         *)
(* A handler runs atomically between two awaits (JavaScript is single      *)
(* threaded), so there is one action per await that returns: the request   *)
(* arriving (request.json()), authService.login, authService.updateUser,   *)
(* authService.register, oAuth2Client.getAccessToken and                   *)
(* gmail.users.messages.send. Several requests interleave at those points. *)
(*                                                                         *)
(* JavaScript values are modelled with one TLA+ type each:                 *)
(*   - a string that may be absent is a string, "" standing for every      *)
(*     falsy value (undefined, null, "") and "undefined" for the key an    *)
(*     absent value turns into when it indexes an object;                  *)
(*   - a number is [nan, n];                                               *)
(*   - a Date is [valid, y, m, d], m being getMonth() (0..11); the time of *)
(*     day is carried unchanged by setMonth and is left out, and the       *)
(*     server's time zone is taken to be UTC;                              *)
(*   - an ISO string of a date is the number yyyymmdd, which orders as the *)
(*     strings do.                                                         *)
(***************************************************************************)
EXTENDS Integers, Sequences, FiniteSets, TLC

\* Number of requests the receiver handles in one behaviour.
NumReq == 2

Req == 1..NumReq

\* ------------------------------------------------------------------------
\* JavaScript numbers and dates

Num(n) == [nan |-> FALSE, n |-> n]

NaN == [nan |-> TRUE, n |-> 0]

InvalidDate == [valid |-> FALSE, y |-> 0, m |-> 0, d |-> 0]

MkDate(y, m, d) == [valid |-> TRUE, y |-> y, m |-> m, d |-> d]

IsLeapYear(y) == (y % 4 = 0 /\ y % 100 # 0) \/ y % 400 = 0

\* m is a month index 0..11
DaysInMonth(y, m) ==
  IF m = 1 THEN (IF IsLeapYear(y) THEN 29 ELSE 28)
  ELSE IF m \in {3, 5, 8, 10} THEN 30
  ELSE 31

\* The value of data.paidAt as the JSON body carries it.
AbsentPaidAt == [kind |-> "absent", y |-> 0, m |-> 0, d |-> 0]

GarbagePaidAt == [kind |-> "invalid", y |-> 0, m |-> 0, d |-> 0]

IsoPaidAt(y, m, d) == [kind |-> "date", y |-> y, m |-> m, d |-> d]

\* `paidAt` used as a condition: every falsy value is the absent one.
Truthy(paidAt) == paidAt.kind # "absent"

\* new Date(paidAt): a string that is no date gives an Invalid Date.
NewDate(paidAt) ==
  IF paidAt.kind = "date" THEN MkDate(paidAt.y, paidAt.m, paidAt.d)
  ELSE InvalidDate

getMonth(date) == IF date.valid THEN Num(date.m) ELSE NaN

Plus(a, b) == IF a.nan \/ b.nan THEN NaN ELSE Num(a.n + b.n)

\* Date.prototype.setMonth(month): the month index may exceed 11 and carries
\* into the year; a day the target month does not have carries into the next
\* month (MakeDay). A NaN month, or an Invalid Date, gives an Invalid Date.
setMonth(date, month) ==
  IF ~date.valid \/ month.nan THEN InvalidDate
  ELSE LET yy == date.y + (month.n \div 12)
           mm == month.n % 12
           dim == DaysInMonth(yy, mm)
       IN  IF date.d <= dim THEN MkDate(yy, mm, date.d)
           ELSE IF mm = 11 THEN MkDate(yy + 1, 0, date.d - dim)
           ELSE MkDate(yy, mm + 1, date.d - dim)

\* Date.prototype.toISOString(): throws RangeError on an Invalid Date.
toISOString(date) ==
  IF date.valid
  THEN [threw |-> FALSE, value |-> date.y * 10000 + (date.m + 1) * 100 + date.d]
  ELSE [threw |-> TRUE, value |-> 0]

calculateExpirationDate_KeepsStart(startDate, months) ==
  toISOString(startDate)

calculateExpirationDate(startDate, months) ==
  LET expirationDate == setMonth(startDate, Plus(getMonth(startDate), months))
  IN  toISOString(expirationDate)

\* ------------------------------------------------------------------------
\* planMapping

PlanNames == {"Plano Mensal", "Plano 6 Meses", "Plano Anual", "Produto Teste"}

\* Properties every object literal inherits from Object.prototype: indexing
\* planMapping with one of them yields a truthy value that is no plan entry.
ObjectPrototypeKeys ==
  {"constructor", "toString", "toLocaleString", "valueOf", "hasOwnProperty",
   "isPrototypeOf", "propertyIsEnumerable", "__proto__", "__defineGetter__",
   "__defineSetter__", "__lookupGetter__", "__lookupSetter__"}

PlanEntry(plan, months) ==
  [kind |-> "entry", plan |-> plan, durationInMonths |-> Num(months)]

\* planMapping[key]
planMapping(key) ==
  CASE key = "Plano Mensal" -> PlanEntry("mensal", 1)
    [] key = "Plano 6 Meses" -> PlanEntry("6meses", 6)
    [] key = "Plano Anual" -> PlanEntry("anual", 12)
    [] key = "Produto Teste" -> PlanEntry("anual", 12)
    [] key \in ObjectPrototypeKeys ->
         [kind |-> "inherited", plan |-> "undefined", durationInMonths |-> NaN]
    [] OTHER ->
         [kind |-> "undefined", plan |-> "undefined", durationInMonths |-> NaN]

\* ------------------------------------------------------------------------
\* Request bodies

NoCustomer ==
  [present |-> FALSE, email |-> "", name |-> "", phone |-> "", docNumber |-> ""]

Customer(email, name, phone, docNumber) ==
  [present |-> TRUE, email |-> email, name |-> name, phone |-> phone,
   docNumber |-> docNumber]

Ana == Customer("ana@example.com", "Ana", "+5511999990000", "12345678900")

Bia == Customer("bia@example.com", "Bia", "", "")

NoProduct == [present |-> FALSE, name |-> "undefined"]

Product(name) == [present |-> TRUE, name |-> name]

\* product?.name, as the key it is when it indexes planMapping
ProductName(product) == IF product.present THEN product.name ELSE "undefined"

\* A body that is a webhook object with a data object, alone or as the first
\* element of an array.
EventBody(shape, event, paidAt, customer, product) ==
  [shape |-> shape, event |-> event, paidAt |-> paidAt, customer |-> customer,
   product |-> product]

\* The other bodies: "unparseable" is no JSON; "falsy" is null, false, 0 or "";
\* "emptyArray" is []; "arrayFalsy" is [null]; "noData" is an object whose data
\* is absent or falsy; "dataPrimitive" is an object whose data is a truthy
\* value that is no object (5, "x", true), so that every field read from it is
\* undefined.
OtherBody(shape, event) ==
  EventBody(shape, event, AbsentPaidAt, NoCustomer, NoProduct)

MalformedShapes == {"unparseable", "falsy", "emptyArray", "arrayFalsy", "noData"}

EventTypes ==
  {"subscription_created", "subscription_renewed", "payment_failed", "undefined"}

PaidAts ==
  {AbsentPaidAt, GarbagePaidAt, IsoPaidAt(2024, 0, 15), IsoPaidAt(2023, 7, 31),
   IsoPaidAt(2024, 1, 29)}

Customers ==
  {NoCustomer, Customer("", "Ana", "", ""), Customer("ana@example.com", "", "", ""),
   Ana, Bia}

Products ==
  {NoProduct} \cup {Product(n) : n \in PlanNames}
    \cup {Product("plano mensal"), Product("Plano Desconhecido"),
          Product("constructor")}

\* Every body a single request is tried with.
AllBodies ==
  {OtherBody(s, "undefined") : s \in MalformedShapes}
    \cup {OtherBody("dataPrimitive", "subscription_created")}
    \cup {EventBody(s, e, p, c, pr) :
            s \in {"object", "array"}, e \in EventTypes, p \in PaidAts,
            c \in Customers, pr \in Products}

\* The bodies concurrent deliveries are tried with: for each of two customers
\* a monthly plan paid in January 2024 and an annual plan paid in August 2023,
\* and one body of each kind that is answered without a directory call.
RaceBodies ==
  {EventBody("object", "subscription_created", IsoPaidAt(2024, 0, 15), c,
             Product("Plano Mensal")) : c \in {Ana, Bia}}
    \cup {EventBody("array", "subscription_renewed", IsoPaidAt(2023, 7, 31), c,
                    Product("Plano Anual")) : c \in {Ana, Bia}}
    \cup {OtherBody("unparseable", "undefined"),
          EventBody("object", "payment_failed", IsoPaidAt(2024, 0, 15), Ana,
                    Product("Plano Mensal")),
          EventBody("object", "subscription_renewed", IsoPaidAt(2024, 0, 15),
                    Ana, Product("Plano Desconhecido"))}

NoBody == OtherBody("none", "undefined")

\* ------------------------------------------------------------------------
\* Responses (NextResponse.json); userId 0 stands for no userId

Resp(status, success, message, userId) ==
  [status |-> status, success |-> success, message |-> message,
   userId |-> userId]

NoResponse == Resp(0, FALSE, "", 0)

InvalidPayload == Resp(400, FALSE, "Payload invalido.", 0)

MissingCustomer == Resp(400, FALSE, "Dados do cliente ausentes.", 0)

PlanNotConfigured == Resp(400, FALSE, "Plano nao configurado.", 0)

SubscriptionUpdated ==
  Resp(200, TRUE, "Assinatura de usuario existente foi renovada/atualizada.", 0)

UserCreated(userId) == Resp(200, TRUE, "Usuario criado com sucesso.", userId)

RegisterFailed == Resp(500, FALSE, "Falha ao registrar usuario", 0)

EventIgnored ==
  Resp(200, TRUE, "Evento recebido, mas nao acionou nenhuma acao.", 0)

\* the catch block of POST
InternalError == Resp(500, FALSE, "Erro interno do servidor.", 0)

\* ------------------------------------------------------------------------
\* The synchronous part of POST, from request.json() to authService.login

\* !webhookData || !webhookData.data is false
HasData(b) == b.shape \in {"object", "array", "dataPrimitive"}

ShouldProcess_AnyPaidEvent(event, paidAt) ==
  event \in {"subscription_created", "subscription_renewed"} \/ Truthy(paidAt)

ShouldProcess(event, paidAt) ==
  (event = "subscription_created" \/ event = "subscription_renewed")
    /\ Truthy(paidAt)

CustomerMissing_EmailOnly(customer) ==
  ~customer.present \/ customer.email = ""

\* !customer || !customer.email || !customer.name
CustomerMissing(customer) ==
  ~customer.present \/ customer.email = "" \/ customer.name = ""

\* !planInfo is false
PlanFound(planInfo) == planInfo.kind # "undefined"

PlanInfo(b) == planMapping(ProductName(b.product))

ExpirationDate(b) ==
  calculateExpirationDate(NewDate(b.paidAt), PlanInfo(b).durationInMonths)

\* Where the synchronous part ends: "threw" is an exception caught by the
\* catch block (request.json() rejecting, toISOString() throwing), "lookup" is
\* the call of authService.login.
Preflight(b) ==
  IF b.shape = "unparseable" THEN "threw"
  ELSE IF ~HasData(b) THEN "invalidPayload"
  ELSE IF ~ShouldProcess(b.event, b.paidAt) THEN "ignored"
  ELSE IF CustomerMissing(b.customer) THEN "missingCustomer"
  ELSE IF ~PlanFound(PlanInfo(b)) THEN "unknownPlan"
  ELSE IF ExpirationDate(b).threw THEN "threw"
  ELSE "lookup"

PreflightResponse_NoCatch(outcome) ==
  CASE outcome = "invalidPayload" -> InvalidPayload
    [] outcome = "ignored" -> EventIgnored
    [] outcome = "missingCustomer" -> MissingCustomer
    [] outcome = "unknownPlan" -> PlanNotConfigured
    [] OTHER -> NoResponse

PreflightResponse(outcome) ==
  CASE outcome = "invalidPayload" -> InvalidPayload
    [] outcome = "ignored" -> EventIgnored
    [] outcome = "missingCustomer" -> MissingCustomer
    [] outcome = "unknownPlan" -> PlanNotConfigured
    [] OTHER -> InternalError

defaultPassword == "123456"

newUserPayload_Admin(b) ==
  [email |-> b.customer.email, password |-> defaultPassword,
   nome |-> b.customer.name, phone |-> b.customer.phone,
   cpf |-> b.customer.docNumber, birthDate |-> "", role |-> "admin",
   isActive |-> TRUE, plan |-> PlanInfo(b).plan,
   planExpiresAt |-> ExpirationDate(b).value]

newUserPayload(b) ==
  [email |-> b.customer.email, password |-> defaultPassword,
   nome |-> b.customer.name, phone |-> b.customer.phone,
   cpf |-> b.customer.docNumber, birthDate |-> "", role |-> "user",
   isActive |-> TRUE, plan |-> PlanInfo(b).plan,
   planExpiresAt |-> ExpirationDate(b).value]

updatePatch_WholePayload(b) == newUserPayload(b)

\* the second argument of authService.updateUser
updatePatch(b) ==
  [isActive |-> TRUE, plan |-> PlanInfo(b).plan,
   planExpiresAt |-> ExpirationDate(b).value]

ExistingUser_Ignored(loginResult) == 0

\* loginResult.success ? loginResult.user : null (0 stands for null)
ExistingUser(loginResult) ==
  IF loginResult.success THEN loginResult.user ELSE 0

RegisterOk_Unchecked(result) == TRUE

\* result.success && result.user
RegisterOk(result) == result.success /\ result.user # 0

sendWelcomeEmailRejects_NoCatch(outcome) ==
  outcome \in {"tokenFailed", "sendFailed"}

\* Whether the promise of sendWelcomeEmail rejects: its try/catch logs every
\* error of getAccessToken and of send, and the check of the credentials
\* returns.
sendWelcomeEmailRejects(outcome) == FALSE

\* `await sendWelcomeEmail(newUserPayload)` returning, and the response after it
AfterWelcomeEmail(userId, outcome) ==
  IF sendWelcomeEmailRejects(outcome) THEN InternalError
  ELSE UserCreated(userId)

\* ------------------------------------------------------------------------
\* AccountDirectory (authService): a set of accounts

LegacyAccount ==
  [id |-> 1, email |-> "ana@example.com", password |-> "s3cret",
   nome |-> "Ana Antiga", phone |-> "+551130000000", cpf |-> "00011122233",
   birthDate |-> "1990-05-20", role |-> "admin", isActive |-> FALSE,
   plan |-> "mensal", planExpiresAt |-> 20230101]

InitialDirectories == {{}, {LegacyAccount}}

findByEmail(dir, email) == {u \in dir : u.email = email}

SetMax(S) == CHOOSE x \in S : \A y \in S : y <= x

NewId(dir) == 1 + SetMax({0} \cup {u.id : u \in dir})

\* the account a payload becomes
AccountOf(id, payload) ==
  [id |-> id, email |-> payload.email, password |-> payload.password,
   nome |-> payload.nome, phone |-> payload.phone, cpf |-> payload.cpf,
   birthDate |-> payload.birthDate, role |-> payload.role,
   isActive |-> payload.isActive, plan |-> payload.plan,
   planExpiresAt |-> payload.planExpiresAt]

ApplyPatch(u, patch) ==
  [f \in DOMAIN u |-> IF f \in DOMAIN patch THEN patch[f] ELSE u[f]]

DirUpdate(dir, id, patch) ==
  {IF u.id = id THEN ApplyPatch(u, patch) ELSE u : u \in dir}

NoLogin == [state |-> "none", success |-> FALSE, user |-> 0]

LoginFound(u) == [state |-> "returned", success |-> TRUE, user |-> u.id]

LoginNotFound == [state |-> "returned", success |-> FALSE, user |-> 0]

LoginThrew == [state |-> "threw", success |-> FALSE, user |-> 0]

NoResult == [state |-> "none", success |-> FALSE, user |-> 0, reason |-> ""]

Returned(success, user, reason) ==
  [state |-> "returned", success |-> success, user |-> user, reason |-> reason]

Threw == [state |-> "threw", success |-> FALSE, user |-> 0, reason |-> ""]

\* ------------------------------------------------------------------------
\* State

VARIABLES
  users,          \* the AccountDirectory's accounts
  initUsers,      \* history: the accounts before the first request
  envConfigured,  \* G_CLIENT_ID, G_CLIENT_SECRET, G_REFRESH_TOKEN and EMAIL_FROM are all set
  pc,             \* per request: the await it is suspended at, "idle" or "done"
  body,           \* per request: the body it arrived with
  doneBefore,     \* history, per request: the requests answered before it arrived
  loginCalls,     \* history, per request: the credentials passed to authService.login
  loginResult,    \* per request: loginResult
  existingUser,   \* per request: existingUser's id, 0 for null
  updateCalls,    \* history, per request: the (id, patch) passed to authService.updateUser
  updateResult,   \* history, per request: what authService.updateUser did
  registerCalls,  \* history, per request: the payloads passed to authService.register
  registerResult, \* per request: result
  welcomeCalls,   \* history, per request: the payloads passed to sendWelcomeEmail
  mail,           \* per request: how sendWelcomeEmail went
  response,       \* per request: the response returned, NoResponse before
  calc            \* one application of calculateExpirationDate: its arguments and result

vars ==
  <<users, initUsers, envConfigured, calc, pc, body, doneBefore, loginCalls,
    loginResult, existingUser, updateCalls, updateResult, registerCalls,
    registerResult, welcomeCalls, mail, response>>

\* No request has arrived.
NoRequests ==
  /\ pc = [r \in Req |-> "idle"]
  /\ body = [r \in Req |-> NoBody]
  /\ doneBefore = [r \in Req |-> {}]
  /\ loginCalls = [r \in Req |-> <<>>]
  /\ loginResult = [r \in Req |-> NoLogin]
  /\ existingUser = [r \in Req |-> 0]
  /\ updateCalls = [r \in Req |-> <<>>]
  /\ updateResult = [r \in Req |-> NoResult]
  /\ registerCalls = [r \in Req |-> <<>>]
  /\ registerResult = [r \in Req |-> NoResult]
  /\ welcomeCalls = [r \in Req |-> <<>>]
  /\ mail = [r \in Req |-> "none"]
  /\ response = [r \in Req |-> NoResponse]

Calc(startDate, months, done, result) ==
  [startDate |-> startDate, months |-> months, done |-> done,
   result |-> result]

NoCalc == Calc(InvalidDate, NaN, TRUE, toISOString(InvalidDate))

Init ==
  /\ users \in InitialDirectories
  /\ initUsers = users
  /\ envConfigured \in BOOLEAN
  /\ NoRequests
  /\ calc = NoCalc

\* return NextResponse.json(...)
Respond(r, resp) ==
  /\ pc' = [pc EXCEPT ![r] = "done"]
  /\ response' = [response EXCEPT ![r] = resp]

\* POST, lines 88-116: request r arrives with body b (requests are numbered in
\* the order they arrive) and runs to its first response or to the call of
\* authService.login.
POST(r, b) ==
  /\ pc[r] = "idle"
  /\ \A q \in Req : q < r => pc[q] # "idle"
  /\ body' = [body EXCEPT ![r] = b]
  /\ doneBefore' = [doneBefore EXCEPT ![r] = {q \in Req : pc[q] = "done"}]
  /\ IF Preflight(b) = "lookup"
     THEN /\ loginCalls' =
               [loginCalls EXCEPT
                  ![r] = Append(@, [email |-> b.customer.email, password |-> ""])]
          /\ pc' = [pc EXCEPT ![r] = "login"]
          /\ UNCHANGED response
     ELSE /\ Respond(r, PreflightResponse(Preflight(b)))
          /\ UNCHANGED loginCalls
  /\ UNCHANGED <<users, initUsers, envConfigured, calc, loginResult, existingUser,
                 updateCalls, updateResult, registerCalls, registerResult,
                 welcomeCalls, mail>>

\* lines 117-143: with loginResult in hand, update the existing user or
\* register a new one
AfterLogin(r, res) ==
  /\ loginResult' = [loginResult EXCEPT ![r] = res]
  /\ existingUser' = [existingUser EXCEPT ![r] = ExistingUser(res)]
  /\ IF ExistingUser(res) # 0
     THEN /\ updateCalls' =
               [updateCalls EXCEPT
                  ![r] = Append(@, [id |-> ExistingUser(res),
                                    patch |-> updatePatch(body[r])])]
          /\ pc' = [pc EXCEPT ![r] = "updateUser"]
          /\ UNCHANGED registerCalls
     ELSE /\ registerCalls' =
               [registerCalls EXCEPT ![r] = Append(@, newUserPayload(body[r]))]
          /\ pc' = [pc EXCEPT ![r] = "register"]
          /\ UNCHANGED updateCalls

\* authService.login returns: the account of that email, or a failure
LoginReturns(r) ==
  /\ pc[r] = "login"
  /\ LET found == findByEmail(users, loginCalls[r][1].email)
     IN  \E res \in (IF found = {} THEN {LoginNotFound}
                     ELSE {LoginFound(u) : u \in found}) :
           AfterLogin(r, res)
  /\ UNCHANGED <<users, initUsers, envConfigured, calc, body, doneBefore, loginCalls,
                 updateResult, registerResult, welcomeCalls, mail, response>>

\* authService.login throws: the catch block answers
LoginThrows(r) ==
  /\ pc[r] = "login"
  /\ loginResult' = [loginResult EXCEPT ![r] = LoginThrew]
  /\ Respond(r, InternalError)
  /\ UNCHANGED <<users, initUsers, envConfigured, calc, body, doneBefore, loginCalls,
                 existingUser, updateCalls, updateResult, registerCalls,
                 registerResult, welcomeCalls, mail>>

\* authService.updateUser applies the patch and returns; line 126 answers
UpdateUserSucceeds(r) ==
  /\ pc[r] = "updateUser"
  /\ LET call == updateCalls[r][1]
     IN  /\ \E u \in users : u.id = call.id
         /\ users' = DirUpdate(users, call.id, call.patch)
         /\ updateResult' = [updateResult EXCEPT ![r] = Returned(TRUE, call.id, "")]
  /\ Respond(r, SubscriptionUpdated)
  /\ UNCHANGED <<initUsers, envConfigured, calc, body, doneBefore, loginCalls,
                 loginResult, existingUser, updateCalls, registerCalls,
                 registerResult, welcomeCalls, mail>>

\* authService.updateUser returns a failure and changes nothing; line 121
\* drops what it returns and line 126 answers
UpdateUserFails(r) ==
  /\ pc[r] = "updateUser"
  /\ updateResult' = [updateResult EXCEPT ![r] = Returned(FALSE, 0, "failure")]
  /\ Respond(r, SubscriptionUpdated)
  /\ UNCHANGED <<users, initUsers, envConfigured, calc, body, doneBefore, loginCalls,
                 loginResult, existingUser, updateCalls, registerCalls,
                 registerResult, welcomeCalls, mail>>

\* authService.updateUser throws and changes nothing; the catch block answers
UpdateUserThrows(r) ==
  /\ pc[r] = "updateUser"
  /\ updateResult' = [updateResult EXCEPT ![r] = Threw]
  /\ Respond(r, InternalError)
  /\ UNCHANGED <<users, initUsers, envConfigured, calc, body, doneBefore, loginCalls,
                 loginResult, existingUser, updateCalls, registerCalls,
                 registerResult, welcomeCalls, mail>>

\* lines 145-153, and sendWelcomeEmail up to its first await (lines 32-38)
AfterRegister(r, result) ==
  /\ registerResult' = [registerResult EXCEPT ![r] = result]
  /\ IF RegisterOk(result)
     THEN /\ welcomeCalls' =
               [welcomeCalls EXCEPT ![r] = Append(@, registerCalls[r][1])]
          /\ IF envConfigured
             THEN /\ mail' = [mail EXCEPT ![r] = "pending"]
                  /\ pc' = [pc EXCEPT ![r] = "getAccessToken"]
                  /\ UNCHANGED response
             ELSE /\ mail' = [mail EXCEPT ![r] = "notConfigured"]
                  /\ Respond(r, AfterWelcomeEmail(result.user, "notConfigured"))
     ELSE /\ Respond(r, RegisterFailed)
          /\ UNCHANGED <<welcomeCalls, mail>>

\* authService.register creates the account: no account has that email
RegisterSucceeds(r) ==
  /\ pc[r] = "register"
  /\ LET payload == registerCalls[r][1]
         id == NewId(users)
     IN  /\ findByEmail(users, payload.email) = {}
         /\ users' = users \cup {AccountOf(id, payload)}
         /\ AfterRegister(r, Returned(TRUE, id, ""))
  /\ UNCHANGED <<initUsers, envConfigured, calc, body, doneBefore, loginCalls,
                 loginResult, existingUser, updateCalls, updateResult,
                 registerCalls>>

\* authService.register refuses: an account has that email already
RegisterConflicts(r) ==
  /\ pc[r] = "register"
  /\ findByEmail(users, registerCalls[r][1].email) # {}
  /\ AfterRegister(r, Returned(FALSE, 0, "conflict"))
  /\ UNCHANGED <<users, initUsers, envConfigured, calc, body, doneBefore, loginCalls,
                 loginResult, existingUser, updateCalls, updateResult,
                 registerCalls>>

\* authService.register returns another failure and creates nothing
RegisterFails(r) ==
  /\ pc[r] = "register"
  /\ AfterRegister(r, Returned(FALSE, 0, "failure"))
  /\ UNCHANGED <<users, initUsers, envConfigured, calc, body, doneBefore, loginCalls,
                 loginResult, existingUser, updateCalls, updateResult,
                 registerCalls>>

\* authService.register throws and creates nothing; the catch block answers
RegisterThrows(r) ==
  /\ pc[r] = "register"
  /\ registerResult' = [registerResult EXCEPT ![r] = Threw]
  /\ Respond(r, InternalError)
  /\ UNCHANGED <<users, initUsers, envConfigured, calc, body, doneBefore, loginCalls,
                 loginResult, existingUser, updateCalls, updateResult,
                 registerCalls, welcomeCalls, mail>>

\* sendWelcomeEmail ends with `outcome`; lines 148-149 answer
WelcomeEmailEnds(r, outcome) ==
  /\ mail' = [mail EXCEPT ![r] = outcome]
  /\ Respond(r, AfterWelcomeEmail(registerResult[r].user, outcome))
  /\ UNCHANGED <<users, initUsers, envConfigured, calc, body, doneBefore, loginCalls,
                 loginResult, existingUser, updateCalls, updateResult,
                 registerCalls, registerResult, welcomeCalls>>

\* oAuth2Client.getAccessToken returns; gmail.users.messages.send is called
GetAccessTokenReturns(r) ==
  /\ pc[r] = "getAccessToken"
  /\ pc' = [pc EXCEPT ![r] = "send"]
  /\ UNCHANGED <<users, initUsers, envConfigured, calc, body, doneBefore, loginCalls,
                 loginResult, existingUser, updateCalls, updateResult,
                 registerCalls, registerResult, welcomeCalls, mail, response>>

GetAccessTokenThrows(r) ==
  /\ pc[r] = "getAccessToken"
  /\ WelcomeEmailEnds(r, "tokenFailed")

SendReturns(r) ==
  /\ pc[r] = "send"
  /\ WelcomeEmailEnds(r, "sent")

SendThrows(r) ==
  /\ pc[r] = "send"
  /\ WelcomeEmailEnds(r, "sendFailed")

\* The directory answering request r.
DirectoryStep(r) ==
  \/ LoginReturns(r)
  \/ LoginThrows(r)
  \/ UpdateUserSucceeds(r)
  \/ UpdateUserFails(r)
  \/ UpdateUserThrows(r)
  \/ RegisterSucceeds(r)
  \/ RegisterConflicts(r)
  \/ RegisterFails(r)
  \/ RegisterThrows(r)

\* The mail transport answering request r.
MailStep(r) ==
  \/ GetAccessTokenReturns(r)
  \/ GetAccessTokenThrows(r)
  \/ SendReturns(r)
  \/ SendThrows(r)

\* Concurrent deliveries.
Next ==
  \E r \in Req :
    \/ \E b \in RaceBodies : POST(r, b)
    \/ DirectoryStep(r)
    \/ MailStep(r)

Spec == Init /\ [][Next]_vars

\* One request, with every body. Nothing creates an account between its login
\* and its register, so authService.register never meets a conflict.
NextSingle ==
  \/ \E b \in AllBodies : POST(1, b)
  \/ LoginReturns(1)
  \/ LoginThrows(1)
  \/ UpdateUserSucceeds(1)
  \/ UpdateUserFails(1)
  \/ UpdateUserThrows(1)
  \/ RegisterSucceeds(1)
  \/ RegisterFails(1)
  \/ RegisterThrows(1)
  \/ MailStep(1)

SpecSingle == Init /\ [][NextSingle]_vars

\* Every call of the directory returns or throws; the mail transport may never
\* answer.
FairSpec == Spec /\ \A r \in Req : WF_vars(DirectoryStep(r))

\* A collaborator, the directory or the mail transport, answering some request.
CollaboratorStep == \E r \in Req : DirectoryStep(r) \/ MailStep(r)

\* Calls of the collaborators return or throw: while a call is outstanding,
\* one of the outstanding calls is eventually answered.
FairAllSpec == Spec /\ WF_vars(CollaboratorStep)

\* The days calculateExpirationDate is applied to: every day of three years,
\* one of them a leap year.
StartDates ==
  {date \in {MkDate(y, m, d) : y \in 2023..2025, m \in 0..11, d \in 1..31} :
     date.d <= DaysInMonth(date.y, date.m)}

\* the durations of planMapping
Durations == {Num(1), Num(6), Num(12)}

InitDates ==
  /\ users = {}
  /\ initUsers = users
  /\ envConfigured = FALSE
  /\ NoRequests
  /\ \E s \in StartDates, n \in Durations :
       calc = Calc(s, n, FALSE, toISOString(InvalidDate))

\* calculateExpirationDate(startDate, months)
Calculate ==
  /\ ~calc.done
  /\ calc' = [calc EXCEPT !.done = TRUE,
                          !.result = calculateExpirationDate(calc.startDate,
                                                             calc.months)]
  /\ UNCHANGED <<users, initUsers, envConfigured, pc, body, doneBefore,
                 loginCalls, loginResult, existingUser, updateCalls,
                 updateResult, registerCalls, registerResult, welcomeCalls,
                 mail, response>>

\* calculateExpirationDate alone, on every start date and duration.
SpecDates == InitDates /\ [][Calculate]_vars

\* ------------------------------------------------------------------------
\* What the claims speak of

Done(r) == pc[r] = "done"

Arrived(r) == pc[r] # "idle"

Recognized(event) == event \in {"subscription_created", "subscription_renewed"}

\* An event with a recognized type, a paidAt that is a date, a customer with an
\* email and a name, and a product of the catalog.
ValidEvent(b) ==
  /\ b.shape \in {"object", "array"}
  /\ Recognized(b.event)
  /\ b.paidAt.kind = "date"
  /\ b.customer.present /\ b.customer.email # "" /\ b.customer.name # ""
  /\ b.product.present /\ b.product.name \in PlanNames

\* The catalog as the specification gives it.
CatalogTier(name) ==
  CASE name = "Plano Mensal" -> "mensal"
    [] name = "Plano 6 Meses" -> "6meses"
    [] OTHER -> "anual"

CatalogMonths(name) ==
  CASE name = "Plano Mensal" -> 1
    [] name = "Plano 6 Meses" -> 6
    [] OTHER -> 12

\* paidAt plus n calendar months, the day of the month kept, as an ISO date
PaidAtPlusMonths(paidAt, n) ==
  LET t == paidAt.m + n
  IN  (paidAt.y + (t \div 12)) * 10000 + ((t % 12) + 1) * 100 + paidAt.d

ExpectedExpiry(b) ==
  PaidAtPlusMonths(b.paidAt, CatalogMonths(b.product.name))

\* No call of the directory failed for a reason other than a conflict.
NoFault(r) ==
  /\ loginResult[r].state # "threw"
  /\ registerResult[r].state # "threw" /\ registerResult[r].reason # "failure"
  /\ updateResult[r].state # "threw" /\ updateResult[r].reason # "failure"

NoDirectoryCall(r) ==
  loginCalls[r] = <<>> /\ registerCalls[r] = <<>> /\ updateCalls[r] = <<>>

\* r2 is a replay of r1: the same valid event, delivered after r1 was answered,
\* for an email that had no account, no other request being about that email
\* and the directory answering both without a fault.
Replay(r1, r2) ==
  /\ r1 # r2 /\ Done(r1) /\ Done(r2)
  /\ r1 \in doneBefore[r2]
  /\ body[r1] = body[r2]
  /\ ValidEvent(body[r1])
  /\ findByEmail(initUsers, body[r1].customer.email) = {}
  /\ \A q \in Req \ {r1, r2} :
       Arrived(q) /\ ValidEvent(body[q])
         => body[q].customer.email # body[r1].customer.email
  /\ NoFault(r1) /\ NoFault(r2)

ReplayedOnce(r1, r2) ==
  LET accounts == findByEmail(users, body[r1].customer.email)
  IN  /\ Cardinality(accounts) = 1
      /\ \A u \in accounts :
           u.isActive /\ u.planExpiresAt = ExpectedExpiry(body[r1])
      /\ registerResult[r1].success
      /\ registerCalls[r2] = <<>> /\ registerResult[r2].state = "none"
      /\ Len(updateCalls[r2]) = 1 /\ updateResult[r2].success

\* C1: the same valid event processed twice in sequence, for an email without
\* an account, leaves exactly one account of that email, active and expiring
\* at paidAt plus the catalog duration; the second delivery updates and
\* creates nothing.
C1_IdempotentReplay ==
  \A r1, r2 \in Req : Replay(r1, r2) => ReplayedOnce(r1, r2)

C1_Witness ==
  \E r1, r2 \in Req : Replay(r1, r2) /\ ReplayedOnce(r1, r2)

\* C2: a request whose create failed with a uniqueness conflict retries as an
\* update and does not answer with a server error.
C2_ConflictAsUpdate ==
  \A r \in Req :
    Done(r) /\ registerResult[r].reason = "conflict"
      => response[r].status # 500 /\ updateCalls[r] # <<>>

\* The handler took the branch of a successful creation (line 145).
TookCreated(r) == welcomeCalls[r] # <<>>

UniqueEmails ==
  \A u, v \in users : u.email = v.email \/ u.id = v.id => u = v

CreatedAtMostOnce ==
  \A r1, r2 \in Req :
    /\ (registerResult[r1].success \/ TookCreated(r1))
    /\ (registerResult[r2].success \/ TookCreated(r2))
    /\ registerCalls[r1][1].email = registerCalls[r2][1].email
    => r1 = r2

NeverDeleted ==
  \A u \in users : \E v \in users' : v.id = u.id /\ v.email = u.email

\* C3: under every interleaving each email has at most one account, an
\* account is created for an email by at most one request, and an account
\* that exists for an email exists in every later state.
C3_OneAccountPerEmail ==
  /\ [](UniqueEmails /\ CreatedAtMostOnce)
  /\ [][NeverDeleted]_vars

\* two deliveries of one new email raced: one created, the other was refused
C3_Witness ==
  \E r1, r2 \in Req :
    /\ registerResult[r1].success
    /\ registerResult[r2].reason = "conflict"
    /\ registerCalls[r1][1].email = registerCalls[r2][1].email
    /\ Cardinality(users) = 1

\* A body with a data object that is not to be processed.
NoOpCase(b) ==
  /\ b.shape \in {"object", "array"}
  /\ ~Recognized(b.event) \/ b.paidAt.kind = "absent"

Untouched(r) ==
  NoDirectoryCall(r) /\ welcomeCalls[r] = <<>> /\ mail[r] = "none"

\* C4: a body with a data object whose event type is not recognized, or whose
\* paidAt is absent, makes no directory call and no notification and is
\* answered 200 with success=true, whatever its customer and product are.
C4_AcknowledgedNoOp ==
  \A r \in Req :
    Arrived(r) /\ NoOpCase(body[r])
      => /\ Done(r)
         /\ Untouched(r)
         /\ users = initUsers
         /\ response[r].status = 200 /\ response[r].success

C4_Witness ==
  \E r \in Req :
    /\ Done(r) /\ NoOpCase(body[r])
    /\ body[r].event = "payment_failed"
    /\ body[r].paidAt.kind = "date"
    /\ body[r].customer = Ana
    /\ body[r].product = Product("Plano Anual")
    /\ response[r] = EventIgnored

\* An event valid in everything but its product, which is no catalog key.
UnrecognizedPlanCase(b) ==
  /\ b.shape \in {"object", "array"}
  /\ Recognized(b.event)
  /\ b.paidAt.kind = "date"
  /\ b.customer.present /\ b.customer.email # "" /\ b.customer.name # ""
  /\ ProductName(b.product) \notin PlanNames

\* C5: an otherwise valid event whose product.name is no catalog key creates
\* and updates no account and is answered 400 with success=false.
C5_UnrecognizedPlanRejected ==
  \A r \in Req :
    Arrived(r) /\ UnrecognizedPlanCase(body[r])
      => /\ Done(r)
         /\ registerCalls[r] = <<>> /\ updateCalls[r] = <<>>
         /\ response[r].status = 400 /\ ~response[r].success

\* C6: a body that is no JSON, or that lacks data, is answered 400 with
\* success=false and no directory operation is invoked.
C6_MalformedRejected ==
  \A r \in Req :
    Arrived(r) /\ body[r].shape \in MalformedShapes
      => /\ Done(r)
         /\ NoDirectoryCall(r)
         /\ response[r].status = 400 /\ ~response[r].success

MailOutcomes == {"sent", "sendFailed", "tokenFailed", "notConfigured"}

\* C7: once the creation succeeded the account stays in the directory, the
\* request is never answered with an error, and its answer is 200 with
\* success=true and the created account's id, however the notification ends.
C7_NotificationFailureIsolated ==
  \A r \in Req :
    registerResult[r].success
      => /\ \E u \in users :
              u.id = registerResult[r].user
                /\ u.email = registerCalls[r][1].email
         /\ pc[r] \in {"getAccessToken", "send", "done"}
         /\ Done(r)
              => /\ mail[r] \in MailOutcomes
                 /\ response[r].status = 200 /\ response[r].success
                 /\ response[r].userId = registerResult[r].user

C7_Witness ==
  \E r1, r2 \in Req :
    /\ Done(r1) /\ registerResult[r1].success /\ mail[r1] = "sendFailed"
    /\ Done(r2) /\ registerResult[r2].success /\ mail[r2] = "tokenFailed"
    /\ response[r1].status = 200 /\ response[r2].status = 200

\* C8: after a successful creation the response is eventually returned, even
\* if the notification never completes.
C8_ResponseNotBlocked ==
  \A r \in Req : registerResult[r].success ~> Done(r)

PatchFields == {"isActive", "plan", "planExpiresAt"}

\* The update a request issues for the account its lookup found.
UpdatesFoundAccount(r) ==
  /\ registerCalls[r] = <<>>
  /\ Len(updateCalls[r]) = 1
  /\ updateCalls[r][1].id = existingUser[r]
  /\ DOMAIN updateCalls[r][1].patch = PatchFields
  /\ updateCalls[r][1].patch.isActive = TRUE
  /\ updateCalls[r][1].patch.plan = CatalogTier(body[r].product.name)
  /\ updateCalls[r][1].patch.planExpiresAt = ExpectedExpiry(body[r])
  /\ Done(r) /\ updateResult[r].state = "returned"
       => response[r].status = 200 /\ response[r].success

\* No step changes an account's id, email, password, name, phone, tax id,
\* birth date or role.
ProfileKept ==
  \A u \in users :
    \E v \in users' :
      /\ v.id = u.id /\ v.email = u.email /\ v.password = u.password
      /\ v.nome = u.nome /\ v.phone = u.phone /\ v.cpf = u.cpf
      /\ v.birthDate = u.birthDate /\ v.role = u.role

\* C9: a valid event for an email that has an account issues exactly one
\* update, of isActive, plan and planExpiresAt and nothing else, and no
\* create; the account's other fields are unchanged; the answer is 200 with
\* success=true when the update returns.
C9_UpdateOfExistingAccount ==
  /\ [](\A r \in Req : existingUser[r] # 0 => UpdatesFoundAccount(r))
  /\ [][ProfileKept]_vars

\* the legacy account was renewed: only its three plan fields changed
C9_Witness ==
  \E r \in Req :
    /\ Done(r) /\ existingUser[r] = LegacyAccount.id
    /\ updateResult[r].success
    /\ response[r] = SubscriptionUpdated
    /\ \E v \in users :
         /\ v.id = LegacyAccount.id /\ v.isActive /\ v.plan = "anual"
         /\ v.planExpiresAt = 20240831
         /\ v.role = "admin" /\ v.password = LegacyAccount.password

WriteFailed(r) ==
  \/ registerResult[r].state = "threw"
  \/ registerResult[r].state = "returned" /\ ~registerResult[r].success
  \/ updateResult[r].state = "threw"
  \/ updateResult[r].state = "returned" /\ ~updateResult[r].success

\* C10: a request whose create or update failed (a failure returned, or an
\* exception) is answered 500 with success=false.
C10_WriteFailureIsServerError ==
  \A r \in Req :
    Done(r) /\ WriteFailed(r)
      => response[r].status = 500 /\ ~response[r].success

\* No step moves an account's planExpiresAt to an earlier date.
ExpirationNotEarlier ==
  \A u \in users :
    \A v \in users' : v.id = u.id => v.planExpiresAt >= u.planExpiresAt

\* C11: across the events processed for an email, the account's planExpiresAt
\* never moves to an earlier date than the one it held.
C11_MonotonicExpiration == [][ExpirationNotEarlier]_vars

\* paidAt plus n calendar months as an ISO date: the same day of the month
\* n months on, a day the target month does not have being counted on into
\* the month after it.
CalendarPlusMonths(paidAt, n) ==
  LET t == paidAt.m + n
      yy == paidAt.y + (t \div 12)
      mm == t % 12
      over == paidAt.d - DaysInMonth(yy, mm)
  IN  IF over <= 0 THEN yy * 10000 + (mm + 1) * 100 + paidAt.d
      ELSE yy * 10000 + (mm + 2) * 100 + over

\* The plan fields the catalog and the event's paidAt give.
DerivedFromEvent(b, plan, planExpiresAt) ==
  /\ ValidEvent(b)
  /\ plan = CatalogTier(b.product.name)
  /\ planExpiresAt = CalendarPlusMonths(b.paidAt, CatalogMonths(b.product.name))

\* C12: every planExpiresAt the reconciler writes, on create or on update, is
\* the event's paidAt plus the months of the catalog entry of its product,
\* and the plan written is that entry's tier, whatever the account held
\* before.
C12_ExpirationDerivation ==
  /\ \A r \in Req :
       /\ \A i \in DOMAIN registerCalls[r] :
            DerivedFromEvent(body[r], registerCalls[r][i].plan,
                             registerCalls[r][i].planExpiresAt)
       /\ \A i \in DOMAIN updateCalls[r] :
            DerivedFromEvent(body[r], updateCalls[r][i].patch.plan,
                             updateCalls[r][i].patch.planExpiresAt)
  /\ \A u \in users :
       \/ u \in initUsers
       \/ \E r \in Req :
            Arrived(r) /\ DerivedFromEvent(body[r], u.plan, u.planExpiresAt)

\* the legacy account, monthly until 2023-01-01, renewed for six months paid
\* on 2023-08-31
C12_Witness ==
  \E r \in Req :
    /\ Done(r) /\ updateResult[r].success
    /\ body[r].paidAt = IsoPaidAt(2023, 7, 31)
    /\ body[r].product = Product("Plano 6 Meses")
    /\ \E u \in users :
         u.id = LegacyAccount.id /\ u.plan = "6meses"
           /\ u.planExpiresAt = 20240302

\* C13: calculateExpirationDate(start, 12) is a date of the same month of the
\* year, one year later, for every start date.
C13_SameMonthNextYear ==
  calc.done /\ calc.months = Num(12)
    => /\ ~calc.result.threw
       /\ calc.result.value \div 10000 = calc.startDate.y + 1
       /\ (calc.result.value \div 100) % 100 = calc.startDate.m + 1

\* An event to be processed whose customer is absent, or lacks an email or a
\* name.
MissingCustomerCase(b) ==
  /\ b.shape \in {"object", "array"}
  /\ Recognized(b.event)
  /\ b.paidAt.kind # "absent"
  /\ ~b.customer.present \/ b.customer.email = "" \/ b.customer.name = ""

\* C14: an event with a recognized type and a paidAt whose customer is
\* absent, or whose customer.email or customer.name is absent or empty, is
\* answered 400 with success=false as missing customer data, whatever its
\* product is, and no directory operation and no notification is made.
C14_MissingCustomerRejected ==
  \A r \in Req :
    Arrived(r) /\ MissingCustomerCase(body[r])
      => /\ Done(r)
         /\ Untouched(r)
         /\ users = initUsers
         /\ response[r].status = 400 /\ ~response[r].success
         /\ response[r] = MissingCustomer

\* a customer without a name and a product outside the catalog: the customer
\* is what the answer names
C14_Witness ==
  \E r \in Req :
    /\ Done(r)
    /\ body[r].customer = Customer("ana@example.com", "", "", "")
    /\ body[r].product = Product("Plano Desconhecido")
    /\ body[r].event = "subscription_renewed"
    /\ body[r].paidAt.kind = "date"
    /\ response[r] = MissingCustomer

\* sendWelcomeEmail was called for request r.
NotificationAttempted(r) == welcomeCalls[r] # <<>>

\* C15: a request attempts the welcome notification if and only if its
\* account creation succeeded, at most once, and with the account already in
\* the directory; a request that updates, is rejected, is a no-op or whose
\* creation failed attempts none.
C15_NotificationOrdering ==
  \A r \in Req :
    /\ Len(welcomeCalls[r]) <= 1
    /\ NotificationAttempted(r) <=> registerResult[r].success
    /\ mail[r] # "none" <=> NotificationAttempted(r)
    /\ NotificationAttempted(r)
         => /\ welcomeCalls[r][1] = registerCalls[r][1]
            /\ \E u \in users :
                 u.id = registerResult[r].user
                   /\ u.email = welcomeCalls[r][1].email
    /\ updateCalls[r] # <<>> => ~NotificationAttempted(r)
    /\ Done(r) /\ ~response[r].success => ~NotificationAttempted(r)
    /\ Done(r) /\ response[r] = EventIgnored => ~NotificationAttempted(r)

\* one delivery created the account and notified; the other lost the race
\* and notified nobody
C15_Witness ==
  \E r1, r2 \in Req :
    /\ Done(r1) /\ registerResult[r1].success /\ mail[r1] = "sent"
    /\ Len(welcomeCalls[r1]) = 1
    /\ Done(r2) /\ registerResult[r2].reason = "conflict"
    /\ ~NotificationAttempted(r2) /\ mail[r2] = "none"

\* The account a valid event asks to create.
ShapedFromEvent(b, payload) ==
  /\ ValidEvent(b)
  /\ payload.role = "user"
  /\ payload.isActive = TRUE
  /\ payload.password = "123456"
  /\ payload.email = b.customer.email
  /\ payload.nome = b.customer.name
  /\ payload.phone = b.customer.phone
  /\ payload.cpf = b.customer.docNumber
  /\ payload.birthDate = ""
  /\ DerivedFromEvent(b, payload.plan, payload.planExpiresAt)

\* C16: every account the reconciler asks to create has role user, is active,
\* has the fixed default credential, the customer's email and name and the
\* resolved plan and expiration; no account is created with another role and
\* no account that existed changes its role.
C16_CreatedAccountShape ==
  /\ \A r \in Req :
       \A i \in DOMAIN registerCalls[r] :
         ShapedFromEvent(body[r], registerCalls[r][i])
  /\ \A u \in users :
       IF \E v \in initUsers : v.id = u.id
       THEN \A v \in initUsers : v.id = u.id => u.role = v.role
       ELSE u.role = "user"

\* an account was created, and the legacy administrator was renewed and is
\* an administrator still
C16_Witness ==
  /\ \E r \in Req :
       /\ Done(r) /\ registerResult[r].success
       /\ \E u \in users :
            u.id = registerResult[r].user /\ u.role = "user"
              /\ u.password = "123456" /\ u.email = "bia@example.com"
  /\ \E r \in Req :
       /\ Done(r) /\ updateResult[r].success
       /\ \E u \in users :
            u.id = LegacyAccount.id /\ u.role = "admin" /\ u.isActive

\* A structured response {success, message, ...} with status 200, 400 or 500.
Structured(resp) ==
  /\ resp.status \in {200, 400, 500}
  /\ resp.message # ""
  /\ resp.success <=> resp.status = 200

\* A request is answered when it ends, and not before.
AnsweredAtEnd ==
  \A r \in Req :
    IF Done(r) THEN Structured(response[r]) ELSE response[r] = NoResponse

\* An answer is final.
AnsweredOnce ==
  \A r \in Req :
    Done(r) => pc'[r] = "done" /\ response'[r] = response[r]

\* Every request that arrived is answered. An answer being final, a request
\* left unanswered for ever would make this false from its arrival on; so
\* its holding again and again means that each request is eventually answered.
AllAnswered == \A r \in Req : Arrived(r) => Done(r)

\* C17: every request whose collaborator calls all return or throw reaches
\* one terminal outcome, a structured response with status 200, 400 or 500,
\* and keeps it; no exception leaves the handler unanswered.
C17_AlwaysAnswered ==
  /\ []AnsweredAtEnd
  /\ [][AnsweredOnce]_vars
  /\ []<>AllAnswered

\* both requests ended in the catch block: one on an exception of
\* authService.register, one on a body that is no JSON
C17_Witness ==
  \E r1, r2 \in Req :
    /\ Done(r1) /\ registerResult[r1].state = "threw"
    /\ response[r1] = InternalError
    /\ Done(r2) /\ body[r2].shape = "unparseable"
    /\ response[r2] = InternalError

\* C18: a request that ends with success=false leaves the directory as it
\* was before it, the accounts and every field of them; so does an otherwise
\* valid event whose paidAt is no date.
C18_UnchangedOnError ==
  \A r \in Req :
    Done(r) /\ ~response[r].success
      => /\ users = initUsers
         /\ updateResult[r].success = FALSE
         /\ registerResult[r].success = FALSE

\* an otherwise valid event for the legacy account whose paidAt is no date:
\* answered 500, the account untouched
C18_Witness ==
  \E r \in Req :
    /\ Done(r)
    /\ body[r].paidAt = GarbagePaidAt
    /\ body[r].customer = Ana
    /\ body[r].product = Product("Plano Anual")
    /\ Recognized(body[r].event)
    /\ response[r] = InternalError
    /\ NoDirectoryCall(r)
    /\ users = {LegacyAccount}

====
